---- MODULE Spec2Model ----
(***************************************************************************)
(* Model of the js-validation library: the fluent Schema builder of        *)
(* src/validation/schema.js with the module-level DEFAULT_RULES objects it *)
(* shares between instances, and the useForm hook.                         *)
(*                                                                         *)
(* JavaScript values are modelled as follows.  An optional property (one   *)
(* that may be undefined) is a set with at most one element: {} is         *)
(* undefined, {v} is the value v.  A comparison with undefined is false,   *)
(* as in JavaScript (undefined converts to NaN).  A regular expression is  *)
(* a record [kind, n] interpreted by PatternTest; a string value is a      *)
(* sequence of characters.                                                 *)
(***************************************************************************)
EXTENDS Integers, Sequences, FiniteSets, TLC

(***************************************************************************)
(* Bounds of the model.                                                    *)
(***************************************************************************)
\* largest number passed to min() and max()
MaxBound == 2
\* number of builder / validateSchema calls explored
MaxCalls == 3

(***************************************************************************)
(* Constants of ./constants.                                               *)
(***************************************************************************)
\* SCHEMA.DEFAULT_MIN: the smallest length min()/max() accept
DEFAULT_MIN == 0
\* SCHEMA.DEFAULT_MAX: the "unset" maximum, larger than every length used
DEFAULT_MAX == 1000

undefined == {}

\* the Schema instances of the program
Inst == {"s1", "s2"}

CharKinds == {"digit", "symbol", "uppercase", "lowercase"}

(***************************************************************************)
(* Rule catalog (./rules): descriptors {pattern, error}.                   *)
(***************************************************************************)
Descriptor(kind, n) ==
  [pattern |-> [kind |-> kind, n |-> n], error |-> [kind |-> kind, n |-> n]]

getMinLengthRule(n) == Descriptor("minLength", n)
getMaxLengthRule(n) == Descriptor("maxLength", n)
getMatchesRule(name) == Descriptor("matches", 0)
FixedRule(kind) == Descriptor(kind, 0)

CustomError == [kind |-> "custom", n |-> 0]

\* a rule object held in #schema.rules: a descriptor plus the optional value
RuleObj(value, d) == [value |-> value, pattern |-> d.pattern, error |-> d.error]

\* { ...descriptor } with error overwritten when customError is truthy
WithError(d, customError) ==
  RuleObj(undefined, [d EXCEPT !.error = IF customError # {} THEN CustomError ELSE @])

Digits == {"1"}
Symbols == {"$"}
Uppers == {"A"}
Lowers == {"a"}

\* pattern.test(s) for the length and character-class patterns
PatternTest(p, s) ==
  CASE p.kind = "minLength" -> Len(s) >= p.n
    [] p.kind = "maxLength" -> Len(s) <= p.n
    [] p.kind = "digit"     -> \E k \in 1..Len(s) : s[k] \in Digits
    [] p.kind = "symbol"    -> \E k \in 1..Len(s) : s[k] \in Symbols
    [] p.kind = "uppercase" -> \E k \in 1..Len(s) : s[k] \in Uppers
    [] p.kind = "lowercase" -> \E k \in 1..Len(s) : s[k] \in Lowers

\* JavaScript relational operators on optional numbers
JsGT(a, b) == \E x \in a, y \in b : x > y
JsLT(a, b) == \E x \in a, y \in b : x < y


(***************************************************************************)
(* State.                                                                  *)
(***************************************************************************)
VARIABLES
  DEFAULT_RULES,  \* the module-level default minimum / maximum rule objects
  schema,         \* schema[i]: the private #schema of Schema instance i
  ret,            \* the outcome of the last call made on a Schema instance
  configured,     \* configured[i]: the last lengths given to min() and max()
  recompiled,     \* the last two calls were validateSchema on one instance
  ncalls          \* number of calls made so far

schemaVars == <<DEFAULT_RULES, schema, ret, configured, recompiled, ncalls>>

VARIABLES
  state,             \* the hook's state: form, errors, submitError
  pending,           \* the state captured by each handleSubmit awaiting its callback
  initialFormState,  \* the hook's second argument
  lastCall           \* the handler called last

hookVars == <<state, pending, initialFormState, lastCall>>
vars == <<schemaVars, hookVars>>

\* delete obj[key]
Delete(obj, key) == [f \in DOMAIN obj \ {key} |-> obj[f]]
\* { ...a, ...b }
Spread(a, b) == [f \in DOMAIN a \cup DOMAIN b |-> IF f \in DOMAIN b THEN b[f] ELSE a[f]]

\* DEFAULT_RULES as the module defines it
InitialDefaultRules ==
  [minimum |-> RuleObj({DEFAULT_MIN}, getMinLengthRule(DEFAULT_MIN)),
   maximum |-> RuleObj({DEFAULT_MAX}, getMaxLengthRule(DEFAULT_MAX))]

\* #schema = { rules: { ...DEFAULT_RULES } }.  The spread copies references:
\* keys lists the properties of rules in insertion order, shared those that
\* still refer to the objects of DEFAULT_RULES, and rules holds the objects
\* the instance owns.
NewSchema ==
  [keys |-> <<"minimum", "maximum">>,
   shared |-> {"minimum", "maximum"},
   rules |-> [k \in {} |-> RuleObj(undefined, FixedRule("none"))],
   label |-> undefined,
   required |-> undefined,
   matchingProperty |-> undefined]

\* the object a rules property refers to
Deref(D, s, k) == IF k \in s.shared THEN D[k] ELSE s.rules[k]

\* this.#schema.rules[k] = obj (a new key goes to the end of the key order)
Attach(s, k, obj) ==
  [s EXCEPT !.rules = Spread(@, [f \in {k} |-> obj]),
            !.shared = @ \ {k},
            !.keys = IF \E j \in 1..Len(@) : @[j] = k THEN @ ELSE Append(@, k)]

\* an assignment to a property of the object rules[k] refers to
Store(D, s, k, obj) ==
  IF k \in s.shared
    THEN [D |-> [D EXCEPT ![k] = obj], s |-> s]
    ELSE [D |-> D, s |-> [s EXCEPT !.rules[k] = obj]]

(***************************************************************************)
(* Arguments: JavaScript values tagged with their type.                    *)
(***************************************************************************)
NumberArgs == {[t |-> "number", n |-> n] : n \in (0 - 1)..MaxBound}
                \cup {[t |-> "string", n |-> 0]}
StringArgs == {[t |-> "string", s |-> s] : s \in {"", "password"}}
                \cup {[t |-> "number", s |-> ""]}
ErrorArgs == {undefined, {"custom"}}

\* validateType(value, isX) of ./utils: a TypeError unless value has type X
validateType(value, type) == IF value.t # type THEN "TypeError" ELSE "ok"

\* validateLength without its range check
validateLength_NoRangeCheck(value) == validateType(value, "number")

\* validateLength(value): the exception it throws, or "ok"
validateLength(value) ==
  IF validateType(value, "number") # "ok" THEN "TypeError"
  ELSE IF value.n < DEFAULT_MIN THEN "RangeError"
  ELSE "ok"

\* validateStringInput(value, propertyName): the exception it throws, or "ok"
validateStringInput(value) ==
  IF validateType(value, "string") # "ok" THEN "TypeError"
  ELSE IF value.s = "" THEN "Error"
  ELSE "ok"

NoValue == [label |-> undefined, required |-> undefined,
            matchingProperty |-> undefined, rules |-> <<>>]

Outcome(i, op, outcome, msg, value) ==
  [inst |-> i, op |-> op, outcome |-> outcome, msg |-> msg, value |-> value]

Returned(i, op) == Outcome(i, op, "return", "", NoValue)
Thrown(i, op, type) == Outcome(i, op, type, "", NoValue)


(***************************************************************************)
(* Accessors.                                                              *)
(***************************************************************************)
minimum(D, s) == Deref(D, s, "minimum").value
maximum(D, s) == Deref(D, s, "maximum").value
has(s, k) == \E j \in 1..Len(s.keys) : s.keys[j] = k
alias(s) == s.label
required(s) == s.required # undefined
matchingProperty(s) == s.matchingProperty

\* everything the getters of an instance expose
Accessors(D, s) ==
  [minimum |-> minimum(D, s), maximum |-> maximum(D, s),
   digit |-> has(s, "digit"), symbol |-> has(s, "symbol"),
   uppercase |-> has(s, "uppercase"), lowercase |-> has(s, "lowercase"),
   email |-> has(s, "email"), required |-> required(s),
   alias |-> alias(s), matchingProperty |-> matchingProperty(s)]

(***************************************************************************)
(* Builder methods.  Each is one call on instance i; a call that throws    *)
(* records the exception in ret.                                           *)
(***************************************************************************)
Call(i, s, out) ==
  /\ ncalls < MaxCalls
  /\ ncalls' = ncalls + 1
  /\ schema' = [schema EXCEPT ![i] = s]
  /\ ret' = out
  /\ recompiled' = (/\ out.op = "validateSchema"
                    /\ ret.op = "validateSchema"
                    /\ ret.inst = i)
  /\ UNCHANGED hookVars

min(i, value, customError) ==
  LET v == validateLength(value) IN
  /\ IF v # "ok"
       THEN /\ Call(i, schema[i], Thrown(i, "min", v))
            /\ UNCHANGED configured
       ELSE /\ Call(i, Attach(schema[i], "minimum",
                              WithError(getMaxLengthRule(value.n), customError)),
                    Returned(i, "min"))
            /\ configured' = [configured EXCEPT ![i].min = {value.n}]
  /\ UNCHANGED DEFAULT_RULES

max(i, value, customError) ==
  LET v == validateLength(value) IN
  /\ IF v # "ok"
       THEN /\ Call(i, schema[i], Thrown(i, "max", v))
            /\ UNCHANGED configured
       ELSE /\ Call(i, Attach(schema[i], "maximum",
                              WithError(getMaxLengthRule(value.n), customError)),
                    Returned(i, "max"))
            /\ configured' = [configured EXCEPT ![i].max = {value.n}]
  /\ UNCHANGED DEFAULT_RULES

\* hasDigit, hasSymbol, hasUppercase and isEmail share one shape
AttachFixed(s, kind, customError) == Attach(s, kind, WithError(FixedRule(kind), customError))

hasDigit(i, customError) ==
  /\ Call(i, AttachFixed(schema[i], "digit", customError), Returned(i, "hasDigit"))
  /\ UNCHANGED <<DEFAULT_RULES, configured>>

hasSymbol(i, customError) ==
  /\ Call(i, AttachFixed(schema[i], "symbol", customError), Returned(i, "hasSymbol"))
  /\ UNCHANGED <<DEFAULT_RULES, configured>>

hasUppercase(i, customError) ==
  /\ Call(i, AttachFixed(schema[i], "uppercase", customError), Returned(i, "hasUppercase"))
  /\ UNCHANGED <<DEFAULT_RULES, configured>>

\* hasLowercase attaches the lowercase rule and then writes customError to
\* rules.uppercase.error: a TypeError when rules.uppercase is undefined
hasLowercaseResult(s, customError) ==
  LET s1 == Attach(s, "lowercase", RuleObj(undefined, FixedRule("lowercase"))) IN
  IF customError = undefined THEN [s |-> s1, outcome |-> "return"]
  ELSE IF ~has(s1, "uppercase") THEN [s |-> s1, outcome |-> "TypeError"]
  ELSE [s |-> [s1 EXCEPT !.rules["uppercase"].error = CustomError],
        outcome |-> "return"]

hasLowercase(i, customError) ==
  LET r == hasLowercaseResult(schema[i], customError) IN
  /\ Call(i, r.s, Outcome(i, "hasLowercase", r.outcome, "", NoValue))
  /\ UNCHANGED <<DEFAULT_RULES, configured>>

label(i, name) ==
  LET v == validateStringInput(name) IN
  /\ IF v # "ok"
       THEN Call(i, schema[i], Thrown(i, "label", v))
       ELSE Call(i, [schema[i] EXCEPT !.label = {name.s}], Returned(i, "label"))
  /\ UNCHANGED <<DEFAULT_RULES, configured>>

isEmail(i, customError) ==
  /\ Call(i, AttachFixed(schema[i], "email", customError), Returned(i, "isEmail"))
  /\ UNCHANGED <<DEFAULT_RULES, configured>>

isRequired(i, customError) ==
  /\ Call(i, [schema[i] EXCEPT !.required =
                 IF customError # undefined THEN {CustomError}
                                            ELSE {FixedRule("required").error}],
          Returned(i, "isRequired"))
  /\ UNCHANGED <<DEFAULT_RULES, configured>>

\* the rule object matches() stores has an error and nothing else
MatchesObj(name, customError) ==
  [value |-> undefined, pattern |-> FixedRule("none").pattern,
   error |-> IF customError # undefined THEN CustomError
                                        ELSE getMatchesRule(name).error]

matches(i, name, customError) ==
  LET v == validateStringInput(name) IN
  /\ IF v # "ok"
       THEN Call(i, schema[i], Thrown(i, "matches", v))
       ELSE Call(i, Attach([schema[i] EXCEPT !.matchingProperty = {name.s}],
                           "matchingProperty", MatchesObj(name.s, customError)),
                 Returned(i, "matches"))
  /\ UNCHANGED <<DEFAULT_RULES, configured>>


(***************************************************************************)
(* validateSchema.                                                         *)
(***************************************************************************)
\* rules[k].value reset to the default minimum instead of deleted
DeleteValue_ResetsToDefault(D, s, k) ==
  Store(D, s, k, [Deref(D, s, k) EXCEPT !.value = {DEFAULT_MIN}])

\* delete rules[k].value
DeleteValue(D, s, k) == Store(D, s, k, [Deref(D, s, k) EXCEPT !.value = undefined])

\* Object.values(rules): the rule objects in key order
RuleList(D, s) == [j \in 1..Len(s.keys) |-> Deref(D, s, s.keys[j])]

\* if (matchingProperty) return { label, required, matchingProperty, rules }
MatchResult(D, s) ==
  [outcome |-> "return", msg |-> "", D |-> D, s |-> s,
   value |-> [label |-> s.label, required |-> s.required,
              matchingProperty |-> s.matchingProperty,
              rules |-> <<s.rules["matchingProperty"]>>]]

\* if (rules.email) return { label, required, rules: [rules.email] }
EmailResult(D, s) ==
  [outcome |-> "return", msg |-> "", D |-> D, s |-> s,
   value |-> [label |-> s.label, required |-> s.required,
              matchingProperty |-> undefined,
              rules |-> <<s.rules["email"]>>]]

\* the rest of validateSchema: derive the minimum, check the bounds, delete
\* the values and return the rules as an array
GeneralResult(D, s) ==
  LET requiredChars == Len(s.keys) - Cardinality(DOMAIN D)
      min0 == Deref(D, s, "minimum")
      \* minimum not set explicitly: derive it from requiredChars
      st1 == IF min0.value = {DEFAULT_MIN}
               THEN Store(D, s, "minimum",
                          RuleObj({requiredChars}, getMinLengthRule(requiredChars)))
               ELSE [D |-> D, s |-> s]
      minV == Deref(st1.D, st1.s, "minimum").value
      maxV == Deref(st1.D, st1.s, "maximum").value
  IN IF JsGT(minV, maxV) THEN
       [outcome |-> "Error", msg |-> "INVALID_MIN_OVER_MAX", D |-> st1.D, s |-> st1.s,
        value |-> NoValue]
     ELSE IF JsLT(maxV, {requiredChars}) \/ JsLT(minV, {requiredChars}) THEN
       [outcome |-> "Error", msg |-> "INVALID_MIN_MAX", D |-> st1.D, s |-> st1.s,
        value |-> NoValue]
     ELSE
       LET st2 == DeleteValue(st1.D, st1.s, "minimum")
           st3 == DeleteValue(st2.D, st2.s, "maximum")
       IN [outcome |-> "return", msg |-> "", D |-> st3.D, s |-> st3.s,
           value |-> [label |-> s.label, required |-> s.required,
                      matchingProperty |-> s.matchingProperty,
                      rules |-> RuleList(st3.D, st3.s)]]

\* validateSchema with the email rule compiled like any other rule
validateSchemaResult_EmailNotExclusive(D, s) ==
  IF s.matchingProperty # undefined THEN MatchResult(D, s)
  ELSE GeneralResult(D, s)

\* validateSchema on #schema s with the shared DEFAULT_RULES D: the outcome,
\* the value returned and the objects as the call leaves them
validateSchemaResult(D, s) ==
  IF s.matchingProperty # undefined THEN MatchResult(D, s)
  ELSE IF has(s, "email") THEN EmailResult(D, s)
  ELSE GeneralResult(D, s)

validateSchema(i) ==
  LET r == validateSchemaResult(DEFAULT_RULES, schema[i]) IN
  /\ Call(i, r.s, Outcome(i, "validateSchema", r.outcome, r.msg, r.value))
  /\ DEFAULT_RULES' = r.D
  /\ UNCHANGED configured

(***************************************************************************)
(* The builder: the Schema instances constructed, any calls on them.       *)
(***************************************************************************)
NoCall == Outcome("s1", "new", "return", "", NoValue)

SchemaInit ==
  /\ DEFAULT_RULES = InitialDefaultRules
  /\ schema = [i \in Inst |-> NewSchema]
  /\ ret = NoCall
  /\ configured = [i \in Inst |-> [min |-> undefined, max |-> undefined]]
  /\ recompiled = FALSE
  /\ ncalls = 0

\* any call on one of the instances in I
SchemaNext(I) ==
  \/ \E i \in I, v \in NumberArgs, e \in ErrorArgs : min(i, v, e)
  \/ \E i \in I, v \in NumberArgs, e \in ErrorArgs : max(i, v, e)
  \/ \E i \in I, e \in ErrorArgs : hasDigit(i, e)
  \/ \E i \in I, e \in ErrorArgs : hasSymbol(i, e)
  \/ \E i \in I, e \in ErrorArgs : hasUppercase(i, e)
  \/ \E i \in I, e \in ErrorArgs : hasLowercase(i, e)
  \/ \E i \in I, n \in StringArgs : label(i, n)
  \/ \E i \in I, e \in ErrorArgs : isEmail(i, e)
  \/ \E i \in I, e \in ErrorArgs : isRequired(i, e)
  \/ \E i \in I, n \in StringArgs, e \in ErrorArgs : matches(i, n, e)
  \/ \E i \in I : validateSchema(i)


(***************************************************************************)
(* validate (../validation), as the specification describes it.            *)
(***************************************************************************)
\* the messages of the rules of a list that value fails, in list order
FailingErrors(rules, value) ==
  LET failing == SelectSeq([j \in 1..Len(rules) |-> j],
                           LAMBDA j : ~PatternTest(rules[j].pattern, value))
  IN [k \in 1..Len(failing) |-> rules[failing[k]].error]

\* single-value mode: a required and empty value fails with the required
\* message alone, otherwise every failing rule reports
ValidateValue(value, compiled) ==
  LET errs == IF compiled.required # undefined /\ value = <<>>
                THEN <<CHOOSE e \in compiled.required : TRUE>>
                ELSE FailingErrors(compiled.rules, value)
  IN [isValid |-> errs = <<>>, errors |-> errs]

\* the errors of one property of a form: match-pair mode when its schema
\* names a matching property, single-value mode otherwise
PropertyErrors(input, schemas, f) ==
  IF schemas[f].matchingProperty # undefined
    THEN LET other == CHOOSE g \in schemas[f].matchingProperty : TRUE
         IN IF input[f] = input[other] THEN <<>> ELSE <<schemas[f].rules[1].error>>
    ELSE ValidateValue(input[f], schemas[f]).errors

\* whole-form mode: the failing properties mapped to their messages
ValidateForm(input, schemas) ==
  LET bad == {f \in DOMAIN input : PropertyErrors(input, schemas, f) # <<>>}
      errs == [f \in bad |-> PropertyErrors(input, schemas, f)]
  IN [isValid |-> bad = {}, errors |-> errs]

(***************************************************************************)
(* The useForm hook.  A handler reads the state of the render it belongs   *)
(* to: handlers are called from the current render, so they read state,    *)
(* while a handleSubmit that awaits its callback keeps the state it was    *)
(* called with (pending) and uses it when the callback rejects.            *)
(***************************************************************************)
\* pending submit callbacks explored at a time
MaxPending == 2

\* EMPTY_VALUE of ../validation/constants: the empty string
EMPTY_VALUE == <<>>

\* the form the hook is given: a schema of the shape of the demo's
FormSchema ==
  [username |->
     [label |-> undefined, required |-> undefined, matchingProperty |-> undefined,
      rules |-> <<RuleObj(undefined, FixedRule("lowercase"))>>],
   password |->
     [label |-> undefined, required |-> {FixedRule("required").error},
      matchingProperty |-> undefined,
      rules |-> <<RuleObj(undefined, FixedRule("digit"))>>],
   confirmPassword |->
     [label |-> undefined, required |-> undefined, matchingProperty |-> {"password"},
      rules |-> <<MatchesObj("password", undefined)>>]]

Fields == DOMAIN FormSchema
FieldValues == {<<>>, <<"a">>, <<"1">>}
\* the messages of the errors a submit callback throws
Messages == {<<"e">>}
\* the initialFormState argument: absent, or the values of a filled form
InitialFormStates ==
  {undefined,
   {[username |-> <<"a">>, password |-> <<"1">>, confirmPassword |-> <<"1">>]}}

NoErrors == [f \in {} |-> <<>>]

\* init(schema, initialFormState)
init(formSchema, initial) ==
  [form |-> IF initial = undefined
              THEN [f \in DOMAIN formSchema |-> EMPTY_VALUE]
              ELSE CHOOSE f \in initial : TRUE,
   errors |-> NoErrors,
   submitError |-> EMPTY_VALUE]

getMatchingProperty(currentProperty, formSchema) ==
  IF formSchema[currentProperty].matchingProperty # undefined
    THEN formSchema[currentProperty].matchingProperty
    ELSE LET found == {g \in DOMAIN formSchema \ {currentProperty} :
                         formSchema[g].matchingProperty = {currentProperty}}
         IN IF found = {} THEN undefined ELSE {CHOOSE g \in found : TRUE}

\* validateProperty that re-validates the named property and not its partner
validateProperty_NamedOnly(st, name, value) ==
  LET mp == getMatchingProperty(name, FormSchema) IN
  IF mp = undefined
    THEN LET r == ValidateValue(value, FormSchema[name])
         IN IF r.isValid THEN Delete(st.errors, name)
                         ELSE Spread(st.errors, [f \in {name} |-> r.errors])
    ELSE LET other == CHOOSE g \in mp : TRUE
             matchingValues == [f \in {name, other} |->
                                  IF f = name THEN value ELSE st.form[other]]
             matchingValuesSchema == [f \in {name, other} |-> FormSchema[f]]
             r == ValidateForm(matchingValues, matchingValuesSchema)
         IN Spread(Delete(st.errors, name),
                   [f \in DOMAIN r.errors \cap {name} |-> r.errors[f]])

\* validateProperty(name, value) on the state st: all the errors of the form
validateProperty(st, name, value) ==
  LET mp == getMatchingProperty(name, FormSchema) IN
  IF mp = undefined
    THEN LET r == ValidateValue(value, FormSchema[name])
         IN IF r.isValid THEN Delete(st.errors, name)
                         ELSE Spread(st.errors, [f \in {name} |-> r.errors])
    ELSE LET other == CHOOSE g \in mp : TRUE
             matchingValues == [f \in {name, other} |->
                                  IF f = name THEN value ELSE st.form[other]]
             matchingValuesSchema == [f \in {name, other} |-> FormSchema[f]]
             r == ValidateForm(matchingValues, matchingValuesSchema)
         IN Spread(Delete(Delete(st.errors, name), other), r.errors)

\* handleSubmit without the return that follows setting the errors
handleSubmit_NoReturn ==
  LET v == ValidateForm(state.form, FormSchema) IN
  /\ Len(pending) < MaxPending
  /\ state' = IF v.isValid THEN state ELSE [state EXCEPT !.errors = v.errors]
  /\ pending' = Append(pending, state)
  /\ lastCall' = "handleSubmit"
  /\ UNCHANGED <<initialFormState, schemaVars>>

\* handleSubmit: validate, then either set the errors or call submitForm and
\* await it, keeping the state this render was given
handleSubmit ==
  LET v == ValidateForm(state.form, FormSchema) IN
  /\ v.isValid => Len(pending) < MaxPending
  /\ IF ~v.isValid
       THEN /\ state' = [state EXCEPT !.errors = v.errors]
            /\ UNCHANGED pending
       ELSE /\ pending' = Append(pending, state)
            /\ UNCHANGED state
  /\ lastCall' = "handleSubmit"
  /\ UNCHANGED <<initialFormState, schemaVars>>

Without(seq, k) == [j \in 1..(Len(seq) - 1) |-> IF j < k THEN seq[j] ELSE seq[j + 1]]

\* the awaited submitForm() resolves: handleSubmit ends
submitResolves(k) ==
  /\ pending' = Without(pending, k)
  /\ UNCHANGED <<state, initialFormState, lastCall, schemaVars>>

\* the awaited submitForm() rejects: the catch block sets the state
submitRejects(k, message) ==
  /\ state' = [pending[k] EXCEPT !.submitError = message]
  /\ pending' = Without(pending, k)
  /\ UNCHANGED <<initialFormState, lastCall, schemaVars>>

handleReset ==
  /\ state' = init(FormSchema, initialFormState)
  /\ lastCall' = "handleReset"
  /\ UNCHANGED <<pending, initialFormState, schemaVars>>

handleInputChange(name, value) ==
  /\ state' = [state EXCEPT !.form = Spread(@, [f \in {name} |-> value]),
                            !.errors = validateProperty(state, name, value)]
  /\ lastCall' = "handleInputChange"
  /\ UNCHANGED <<pending, initialFormState, schemaVars>>

\* useState(init(schema, initialFormState))
HookInit(initials) ==
  /\ initialFormState \in initials
  /\ state = init(FormSchema, initialFormState)
  /\ pending = <<>>
  /\ lastCall = "useForm"

(***************************************************************************)
(* Specifications.                                                         *)
(***************************************************************************)
Init == SchemaInit /\ HookInit({undefined})

\* calls on every Schema instance
Next == SchemaNext(Inst)

Spec == Init /\ [][Next]_vars

\* calls on one Schema instance, the other constructed and left alone
SoloNext == SchemaNext({"s1"})

SoloSpec == Init /\ [][SoloNext]_vars

\* the hook on a form
FormInit == SchemaInit /\ HookInit(InitialFormStates)

FormNext ==
  \/ handleSubmit
  \/ \E k \in 1..Len(pending) : submitResolves(k)
  \/ \E k \in 1..Len(pending), m \in Messages : submitRejects(k, m)
  \/ handleReset
  \/ \E f \in Fields, v \in FieldValues : handleInputChange(f, v)

FormSpec == FormInit /\ [][FormNext]_vars


(***************************************************************************)
(* Properties of the builder.                                              *)
(***************************************************************************)
\* the instance the last call was made on
Last == schema[ret.inst]

Compiled == ret.op = "validateSchema" /\ ret.outcome = "return"

\* number of character-class rules enabled on #schema s
ClassCount(s) == Cardinality({k \in CharKinds : has(s, k)})

\* every pattern of a compiled rule list matches the value
Accepts(rules, value) == \A j \in 1..Len(rules) : PatternTest(rules[j].pattern, value)

StringOfLength(L) == [k \in 1..L |-> "a"]

\* the schema has both bounds set by min() and max() and no other rule
OnlyBounds(i) ==
  /\ configured[i].min # undefined /\ configured[i].max # undefined
  /\ schema[i].keys = <<"minimum", "maximum">>
  /\ schema[i].required = undefined

\* C1: a schema built with min(n).max(m), n <= m, and no other rule, once
\* compiled accepts a value of length L if and only if n <= L <= m.
C1_LengthWithinBounds ==
  (Compiled /\ OnlyBounds(ret.inst)) =>
    \A n \in configured[ret.inst].min, m \in configured[ret.inst].max :
      n <= m =>
        \A L \in 0..(MaxBound + 1) :
          Accepts(ret.value.rules, StringOfLength(L)) <=> (n <= L /\ L <= m)

\* the bounds validateSchema is documented to compare: the configured ones,
\* an unset minimum being the number of character-class rules
ShouldThrow(i) ==
  LET count == ClassCount(schema[i])
      mn == IF configured[i].min = undefined THEN {count} ELSE configured[i].min
      mx == IF configured[i].max = undefined THEN {DEFAULT_MAX} ELSE configured[i].max
  IN \E a \in mn, b \in mx : a > b \/ a < count \/ b < count

\* C2: validateSchema throws if and only if the configured minimum exceeds
\* the configured maximum or a bound is smaller than the number of enabled
\* character-class rules, whether or not isEmail or matches was called.
C2_ThrowsIffMisconfigured ==
  ret.op = "validateSchema" => ((ret.outcome # "return") <=> ShouldThrow(ret.inst))

\* C3: a call on one Schema instance changes neither the accessor values nor
\* the compiled result of a different Schema instance.
C3_OtherInstancesUntouched ==
  [][\A j \in Inst \ {ret'.inst} :
       /\ Accessors(DEFAULT_RULES', schema'[j]) = Accessors(DEFAULT_RULES, schema[j])
       /\ validateSchemaResult(DEFAULT_RULES', schema'[j]).outcome
            = validateSchemaResult(DEFAULT_RULES, schema[j]).outcome
       /\ validateSchemaResult(DEFAULT_RULES', schema'[j]).value
            = validateSchemaResult(DEFAULT_RULES, schema[j]).value]_vars

\* the call made by this step is has<Kind>(customError) on instance i
HasCall(i, kind, customError) ==
  CASE kind = "digit"     -> hasDigit(i, customError)
    [] kind = "symbol"    -> hasSymbol(i, customError)
    [] kind = "uppercase" -> hasUppercase(i, customError)
    [] kind = "lowercase" -> hasLowercase(i, customError)

\* C4: hasDigit, hasSymbol, hasUppercase and hasLowercase called with a
\* customError return the builder, attach their rule with customError as its
\* message, and leave every other rule kind as it was.
C4_CustomErrorOnOwnRule ==
  [][\A i \in Inst, kind \in CharKinds :
       HasCall(i, kind, {"custom"}) =>
         /\ ret'.outcome = "return"
         /\ has(schema'[i], kind)
         /\ schema'[i].rules[kind].error = CustomError
         /\ \A k \in CharKinds \ {kind} :
              /\ has(schema'[i], k) <=> has(schema[i], k)
              /\ has(schema[i], k) => schema'[i].rules[k] = schema[i].rules[k]]_vars


\* C5: when isEmail was called and matches was not, validateSchema returns
\* exactly the email rule with the label and the required message, whatever
\* length and character-class rules were configured, in whatever order.
C5_EmailCompilesAlone ==
  (ret.op = "validateSchema" /\ has(Last, "email") /\ Last.matchingProperty = undefined) =>
    /\ ret.outcome = "return"
    /\ Len(ret.value.rules) = 1
    /\ ret.value.rules[1].pattern = FixedRule("email").pattern
    /\ ret.value.rules[1] = Last.rules["email"]
    /\ ret.value.label = Last.label
    /\ ret.value.required = Last.required

\* an email schema that also has a length or character-class rule was compiled
C5_Witness ==
  /\ ret.op = "validateSchema" /\ has(Last, "email") /\ Last.matchingProperty = undefined
  /\ \/ ClassCount(Last) > 0
     \/ configured[ret.inst].min # undefined
     \/ configured[ret.inst].max # undefined

\* C6: once min(n) was called the minimum accessor returns n, and once
\* max(m) was called the maximum accessor returns m, after any other calls.
C6_AccessorsMirrorSetters ==
  \A i \in Inst :
    /\ configured[i].min # undefined => minimum(DEFAULT_RULES, schema[i]) = configured[i].min
    /\ configured[i].max # undefined => maximum(DEFAULT_RULES, schema[i]) = configured[i].max

\* C7: whenever validateSchema succeeds on a schema on which min() was never
\* called and neither isEmail nor matches is set, the compiled minimum-length
\* rule requires at least as many characters as character-class rules are
\* enabled at that moment.
C7_DerivedMinimumCoversClasses ==
  (/\ Compiled
   /\ configured[ret.inst].min = undefined
   /\ ~has(Last, "email")
   /\ Last.matchingProperty = undefined) =>
    /\ ret.value.rules[1].pattern.kind = "minLength"
    /\ ret.value.rules[1].pattern.n >= ClassCount(Last)

\* C8: min and max throw a TypeError for a non-number and a RangeError for a
\* negative number, label and matches throw a TypeError for a non-string and
\* an Error for an empty string, and the builder state is then what it was.
C8_InvalidArgumentsThrow ==
  [][/\ \A v \in NumberArgs, e \in ErrorArgs :
          (/\ ret'.op \in {"min", "max"}
           /\ min(ret'.inst, v, e) \/ max(ret'.inst, v, e)) =>
            /\ v.t # "number" => ret'.outcome = "TypeError"
            /\ (v.t = "number" /\ v.n < 0) => ret'.outcome = "RangeError"
            /\ ret'.outcome # "return" =>
                 schema' = schema /\ DEFAULT_RULES' = DEFAULT_RULES
     /\ \A n \in StringArgs, e \in ErrorArgs :
          (/\ ret'.op \in {"label", "matches"}
           /\ label(ret'.inst, n) \/ matches(ret'.inst, n, e)) =>
            /\ n.t # "string" => ret'.outcome = "TypeError"
            /\ (n.t = "string" /\ n.s = "") => ret'.outcome = "Error"
            /\ ret'.outcome # "return" =>
                 schema' = schema /\ DEFAULT_RULES' = DEFAULT_RULES]_vars

\* a call with an invalid argument was made on a schema that has rules
C8_Witness ==
  /\ ret.op \in {"min", "max", "label", "matches"}
  /\ ret.outcome \in {"TypeError", "RangeError", "Error"}
  /\ Len(Last.keys) > 2


(***************************************************************************)
(* Properties of the hook.                                                 *)
(***************************************************************************)
\* C9: once handleReset has run the state is the initial state, and stays so
\* until the next handleInputChange or handleSubmit call, also when a submit
\* made before the reset is still awaiting its callback.
C9_ResetStateStays ==
  lastCall = "handleReset" => state = init(FormSchema, initialFormState)

\* C10: handleSubmit invokes the submit callback if and only if whole-form
\* validation of the current form passes; when it fails errors becomes the
\* validation error mapping and form and submitError are unchanged; when the
\* callback throws, submitError becomes the message of the error.
C10_SubmitValidatesFirst ==
  [][/\ handleSubmit =>
          LET v == ValidateForm(state.form, FormSchema) IN
          /\ (Len(pending') = Len(pending) + 1) <=> v.isValid
          /\ ~v.isValid =>
               /\ pending' = pending
               /\ state'.errors = v.errors
               /\ state'.form = state.form
               /\ state'.submitError = state.submitError
     /\ \A k \in 1..Len(pending), m \in Messages :
          submitRejects(k, m) => state'.submitError = m]_vars

\* a submit of an invalid form was refused after an earlier callback threw
C10_Witness ==
  /\ lastCall = "handleSubmit"
  /\ ~ValidateForm(state.form, FormSchema).isValid
  /\ state.errors = ValidateForm(state.form, FormSchema).errors
  /\ state.submitError \in Messages


\* the fields f matches or is matched by
Partners(f) ==
  {g \in Fields \ {f} :
     FormSchema[f].matchingProperty = {g} \/ FormSchema[g].matchingProperty = {f}}

\* C11: handleInputChange for field f with value v sets form[f] to v and
\* leaves the other field values and submitError unchanged; afterwards errors
\* has an entry for f, and for the field f matches or is matched by, exactly
\* when that field fails validation, and the entries of all other fields are
\* unchanged.
C11_InputChangeRevalidates ==
  [][\A f \in Fields, v \in FieldValues :
       (lastCall' = "handleInputChange" /\ handleInputChange(f, v)) =>
         LET failing == ValidateForm(state'.form, FormSchema).errors
             touched == {f} \cup Partners(f)
         IN /\ state'.form[f] = v
            /\ \A h \in Fields \ {f} : state'.form[h] = state.form[h]
            /\ state'.submitError = state.submitError
            /\ \A h \in touched :
                 /\ h \in DOMAIN state'.errors <=> h \in DOMAIN failing
                 /\ h \in DOMAIN failing => state'.errors[h] = failing[h]
            /\ \A h \in Fields \ touched :
                 /\ h \in DOMAIN state'.errors <=> h \in DOMAIN state.errors
                 /\ h \in DOMAIN state.errors => state'.errors[h] = state.errors[h]]_vars

\* an input change left an error on a matching field beside the kept error
\* of a field it did not touch
C11_Witness ==
  /\ lastCall = "handleInputChange"
  /\ "confirmPassword" \in DOMAIN state.errors
  /\ "username" \in DOMAIN state.errors
  /\ state.form["password"] # state.form["confirmPassword"]


\* C12: validateSchema called twice in a row on one Schema instance, with no
\* call in between, ends the same way both times: the same error thrown, or
\* the same label, required message, matchingProperty and rule list returned.
C12_RecompileSameOutcome ==
  [][(/\ ret.op = "validateSchema"
      /\ ret'.op = "validateSchema"
      /\ ret'.inst = ret.inst
      /\ ncalls' = ncalls + 1) =>
       /\ ret'.outcome = ret.outcome
       /\ ret'.msg = ret.msg
       /\ ret'.value = ret.value]_vars

\* a schema with a character-class rule and the default minimum, which the
\* first compile derives and strips of its value, was compiled twice in a row
C12_Witness ==
  /\ recompiled
  /\ ret.outcome = "return"
  /\ "minimum" \in Last.shared
  /\ ClassCount(Last) > 0
  /\ ~has(Last, "email") /\ Last.matchingProperty = undefined


\* C13: when a submit callback fails after handleInputChange calls were made
\* while it was pending, recording submitError keeps the field values and
\* errors those calls set: the form and the errors are not reverted to what
\* they were when the submit started.
C13_LateFailureKeepsChanges ==
  [][\A k \in 1..Len(pending), m \in Messages :
       (lastCall = "handleInputChange" /\ submitRejects(k, m)) =>
         /\ state'.form = state.form
         /\ state'.errors = state.errors
         /\ state'.submitError = m]_vars

====
